---- MODULE Spec2Model ----
(***************************************************************************)
(* The swing-probability notebook (baseball_analysis.ipynb) as a state     *)
(* machine: one action per code cell, run top to bottom; an unhandled      *)
(* exception in a cell stops the run (pc = "aborted").                     *)
(*                                                                         *)
(* A DataFrame is a sequence of rows; a row is a record with its label in  *)
(* the field "index" and one field per column.  A cell is a tuple: <<v>>   *)
(* holds the value v, <<>> is the missing value (NaN).  Measurements are   *)
(* fixed-point integers; relative_pitch_height, a quotient, is the pair    *)
(* <<n, d>> in lowest terms, with <<1, 0>> and <<-1, 0>> for +inf and -inf.*)
(* Probabilities are tenths (5 is 0.5).                                    *)
(***************************************************************************)
EXTENDS Integers, Sequences, FiniteSets, TLC

VARIABLES pc, defined, data_season1, data_season2, data_season3, data_train,
          nan_rows, data_season3_clean, features, X_train, X_test, y_train,
          X_val, y_val, param_grid, grid_search, best_model, files

vars == <<pc, defined, data_season1, data_season2, data_season3, data_train,
          nan_rows, data_season3_clean, features, X_train, X_test, y_train,
          X_val, y_val, param_grid, grid_search, best_model, files>>

tables == <<data_season1, data_season2, data_season3, data_train, nan_rows,
            data_season3_clean>>

matrices == <<X_train, X_test, y_train, X_val, y_val>>

trained == <<param_grid, grid_search, best_model>>

(***************************************************************************)
(* Bounds of the model.                                                    *)
(***************************************************************************)
\* most rows of a varied CSV file
MaxRows == 2
\* most rows of the alternating swing / no-swing file that fills a training set
MaxBulkRows == 5

(***************************************************************************)
(* Cells and rows.                                                         *)
(***************************************************************************)
NaN == <<>>

Cell(v) == <<v>>

IsNA(c) == c = NaN

\* columns of a season CSV file that the notebook reads
RawColumns ==
    <<"description", "plate_z", "sz_bot", "sz_top", "release_speed", "plate_x",
      "stand", "p_throws", "pfx_x", "pfx_z", "balls", "strikes", "pitch_type">>

Range(s) == {s[i] : i \in 1..Len(s)}

\* the columns of a row (its label is not a column)
Columns(row) == DOMAIN row \ {"index"}

\* isna().any(axis=1) for one row
HasNaN(row) == \E c \in Columns(row) : IsNA(row[c])

\* pd.read_csv: the file's records under a fresh RangeIndex 0..n-1
ReadCsv(file) ==
    [i \in 1..Len(file) |-> [c \in DOMAIN file[i] \cup {"index"} |->
        IF c = "index" THEN i - 1 ELSE file[i][c]]]

\* pd.concat([a, b], ignore_index=True)
Concat(a, b) ==
    LET ab == a \o b
    IN  [i \in 1..Len(ab) |-> [ab[i] EXCEPT !.index = i - 1]]

\* df.dropna(axis=0): the rows without a missing value, labels kept
DropNa(df) == SelectSeq(df, LAMBDA row : ~HasNaN(row))

\* df[name] = values, one value per row, as a new column or over an old one
WithColumn(df, name, values) ==
    [i \in 1..Len(df) |-> [c \in DOMAIN df[i] \cup {name} |->
        IF c = name THEN values[i] ELSE df[i][c]]]


(***************************************************************************)
(* Feature engineering.                                                    *)
(***************************************************************************)
\* the list with the comma before its last token lost: Python joins the two
\* adjacent string literals into one
swing_events_joined ==
    <<"foul", "hit_into_play", "swinging_strike", "foul_tip", "foul_bunt",
      "swinging_strike_blocked", "missed_bunt", "bunt_foul_tipfoul_pitchout">>

swing_events ==
    <<"foul", "hit_into_play", "swinging_strike", "foul_tip", "foul_bunt",
      "swinging_strike_blocked", "missed_bunt", "bunt_foul_tip", "foul_pitchout">>

\* lambda x: 1 if x in swing_events else 0
SwingLabel(x) == IF x \in Range(swing_events) THEN 1 ELSE 0

Abs(n) == IF n < 0 THEN -n ELSE n

RECURSIVE Gcd(_, _)
Gcd(a, b) == IF b = 0 THEN a ELSE Gcd(b, a % b)

\* float subtraction of two cells: NaN if either is missing
Sub(a, b) == IF IsNA(a) \/ IsNA(b) THEN NaN ELSE Cell(a[1] - b[1])

\* float division of two cells: x/0 is +inf or -inf, 0/0 is NaN, never an error
Div(a, b) ==
    IF IsNA(a) \/ IsNA(b) THEN NaN
    ELSE LET n == a[1]
             d == b[1]
         IN  IF d = 0
             THEN IF n = 0 THEN NaN ELSE IF n > 0 THEN <<1, 0>> ELSE <<-1, 0>>
             ELSE LET g == Gcd(Abs(n), Abs(d))
                      s == IF d < 0 THEN -1 ELSE 1
                  IN  <<(s * n) \div g, (s * d) \div g>>

\* the height over the top of the zone, not over the height of the zone
RelativePitchHeightOverTop(row) == Div(Sub(row.plate_z, row.sz_bot), row.sz_top)

\* (plate_z - sz_bot) / (sz_top - sz_bot)
RelativePitchHeight(row) ==
    Div(Sub(row.plate_z, row.sz_bot), Sub(row.sz_top, row.sz_bot))

FeatureList ==
    <<"release_speed", "plate_x", "stand", "p_throws", "pfx_x", "pfx_z", "balls",
      "strikes", "pitch_type", "relative_pitch_height">>

(***************************************************************************)
(* One-hot encoding and column alignment.                                  *)
(***************************************************************************)
\* a matrix of features: its column names in order, and its rows, each the
\* label of the table row it came from and a value per column
Matrix(columns, rows) == [columns |-> columns, rows |-> rows]

EmptyMatrix == Matrix(<<>>, <<>>)

\* the columns pandas reads as strings (object dtype); get_dummies encodes these
ObjectColumns == {"description", "stand", "p_throws", "pitch_type"}

\* the level names of the model in Python's string order
LevelOrder == <<"CH", "FF", "L", "R", "SL">>

\* the distinct values of a column, sorted
SortedLevels(df, f) ==
    SelectSeq(LevelOrder, LAMBDA l : \E i \in 1..Len(df) : df[i][f] = Cell(l))

\* drop_first=True: every level but the first gets an indicator column
KeptLevels(levels) == IF Len(levels) = 0 THEN <<>> ELSE Tail(levels)

DummyName(f, l) == f \o "_" \o l

RECURSIVE DummyColumns(_, _)
\* the indicator columns of the object columns of feats, in feats' order
DummyColumns(df, feats) ==
    IF Len(feats) = 0 THEN <<>>
    ELSE LET f == Head(feats)
             own == IF f \in ObjectColumns
                    THEN LET kept == KeptLevels(SortedLevels(df, f))
                         IN  [k \in 1..Len(kept) |->
                                 [name |-> DummyName(f, kept[k]), feature |-> f,
                                  level |-> kept[k]]]
                    ELSE <<>>
         IN  own \o DummyColumns(df, Tail(feats))

\* an encoding that first drops again the rows with a missing value
GetDummiesOfComplete(df, feats) ==
    LET complete == DropNa(df)
        numeric == SelectSeq(feats, LAMBDA f : f \notin ObjectColumns)
        dummies == DummyColumns(complete, feats)
        names == [k \in 1..Len(dummies) |-> dummies[k].name]
        value(row, c) ==
            IF c \in Range(numeric) THEN row[c]
            ELSE LET d == CHOOSE d \in Range(dummies) : d.name = c
                 IN  Cell(IF row[d.feature] = Cell(d.level) THEN 1 ELSE 0)
    IN  Matrix(numeric \o names,
               [i \in 1..Len(complete) |->
                   [index |-> complete[i].index,
                    v |-> [c \in Range(numeric) \cup Range(names) |->
                              value(complete[i], c)]]])

\* pd.get_dummies(df[feats], drop_first=True): the numeric columns as they are,
\* then the indicator columns
GetDummies(df, feats) ==
    LET numeric == SelectSeq(feats, LAMBDA f : f \notin ObjectColumns)
        dummies == DummyColumns(df, feats)
        names == [k \in 1..Len(dummies) |-> dummies[k].name]
        value(row, c) ==
            IF c \in Range(numeric) THEN row[c]
            ELSE LET d == CHOOSE d \in Range(dummies) : d.name = c
                 IN  Cell(IF row[d.feature] = Cell(d.level) THEN 1 ELSE 0)
    IN  Matrix(numeric \o names,
               [i \in 1..Len(df) |->
                   [index |-> df[i].index,
                    v |-> [c \in Range(numeric) \cup Range(names) |-> value(df[i], c)]]])

\* a reindex without fill_value: a column that is new to X is filled with NaN
ReindexNoFill(X, columns, fill) ==
    Matrix(columns,
           [i \in 1..Len(X.rows) |->
               [index |-> X.rows[i].index,
                v |-> [c \in Range(columns) |->
                          IF c \in Range(X.columns) THEN X.rows[i].v[c] ELSE NaN]]])

\* an alignment that adds the missing columns and keeps the columns X has
ReindexKeepingOwn(X, columns, fill) ==
    LET all == columns \o SelectSeq(X.columns, LAMBDA c : c \notin Range(columns))
    IN  Matrix(all,
               [i \in 1..Len(X.rows) |->
                   [index |-> X.rows[i].index,
                    v |-> [c \in Range(all) |->
                              IF c \in Range(X.columns) THEN X.rows[i].v[c]
                              ELSE Cell(fill)]]])

\* X.reindex(columns=columns, fill_value=fill)
Reindex(X, columns, fill) ==
    Matrix(columns,
           [i \in 1..Len(X.rows) |->
               [index |-> X.rows[i].index,
                v |-> [c \in Range(columns) |->
                          IF c \in Range(X.columns) THEN X.rows[i].v[c] ELSE Cell(fill)]]])

\* data_train['swing'] as a series: label and value of every row
Series(df, c) == [i \in 1..Len(df) |-> [index |-> df[i].index, value |-> df[i][c]]]

(***************************************************************************)
(* train_test_split(X, y, test_size=0.2, random_state=21).                 *)
(***************************************************************************)
\* ceil(0.2 * n)
NumTest(n) == (n + 4) \div 5

\* the positions a shuffle can send to the test part; none when either part
\* would be empty (train_test_split raises)
TestChoices(n) ==
    IF n - NumTest(n) <= 0 \/ NumTest(n) <= 0 THEN {}
    ELSE {S \in SUBSET (1..n) : Cardinality(S) = NumTest(n)}

RECURSIVE Positions(_, _)
\* the positions of 1..n that are in S, in increasing order
Positions(n, S) ==
    IF n = 0 THEN <<>>
    ELSE IF n \in S THEN Append(Positions(n - 1, S), n) ELSE Positions(n - 1, S)

Pick(s, S) == LET p == Positions(Len(s), S) IN [k \in 1..Len(p) |-> s[p[k]]]

\* whether some cell of the matrix is +inf or -inf
HasInf(X) ==
    \E i \in 1..Len(X.rows) : \E c \in DOMAIN X.rows[i].v :
        Len(X.rows[i].v[c]) = 2 /\ X.rows[i].v[c][2] = 0

\* whether some cell of the matrix is NaN
HasNaNCell(X) ==
    \E i \in 1..Len(X.rows) : \E c \in DOMAIN X.rows[i].v : IsNA(X.rows[i].v[c])

(***************************************************************************)
(* Grid search.                                                            *)
(***************************************************************************)
\* the grid of the first assignment to param_grid, which the README documents
ParamGridFirst ==
    [n_estimators |-> <<50, 100, 200, 300>>, max_depth |-> <<10, 15, 20, 25, 30>>]

\* the grid of the second assignment, which replaces the first
ParamGridSecond == [n_estimators |-> <<300>>, max_depth |-> <<25>>]

NoGrid == [n_estimators |-> <<>>, max_depth |-> <<>>]

\* GridSearchCV(..., cv=5)
cv == 5

\* sklearn's ParameterGrid: keys in sorted order (max_depth, n_estimators), the
\* last key varying fastest
ParameterGrid(grid) ==
    LET ne == Len(grid.n_estimators)
    IN  [k \in 1..(Len(grid.max_depth) * ne) |->
            [max_depth |-> grid.max_depth[((k - 1) \div ne) + 1],
             n_estimators |-> grid.n_estimators[((k - 1) % ne) + 1]]]

\* mean cross-validated ROC-AUC values a candidate can get, in tenths
ScoreLevels == {5, 9}

\* best_index_: the first candidate with the highest mean score
BestIndex(scores) ==
    CHOOSE k \in 1..Len(scores) :
        /\ \A j \in 1..Len(scores) : scores[j] <= scores[k]
        /\ \A j \in 1..(k - 1) : scores[j] < scores[k]

NoSearch == [candidates |-> <<>>, mean_test_score |-> <<>>, best_index |-> 0]

NoModel == [max_depth |-> 0, n_estimators |-> 0, columns |-> <<>>]

\* GridSearchCV.fit raises with fewer samples than folds or an infinite value;
\* whether it accepts NaN depends on the library version
FitOutcomes(X) ==
    IF Len(X.rows) < cv \/ HasInf(X) THEN {FALSE}
    ELSE IF HasNaNCell(X) THEN BOOLEAN ELSE {TRUE}

\* predict_proba raises on an empty matrix or an infinite value
PredictOutcomes(X) ==
    IF Len(X.rows) = 0 \/ HasInf(X) THEN {FALSE}
    ELSE IF HasNaNCell(X) THEN BOOLEAN ELSE {TRUE}

\* roc_auc_score(y_val, ...) raises unless both classes are present
BothClasses(y) ==
    /\ \E i \in 1..Len(y) : y[i].value = Cell(1)
    /\ \E i \in 1..Len(y) : y[i].value = Cell(0)

\* probabilities predict_proba can return, in tenths
ProbLevels == {5, 9}

\* data_season3['SwingProbability'] = 0.5, in tenths
DefaultSwingProbability == 5

(***************************************************************************)
(* DataFrame.update and to_csv.                                            *)
(***************************************************************************)
\* the row of other labelled like row, as a set of none or one
Aligned(other, row) == {other[k] : k \in {k \in 1..Len(other) : other[k].index = row.index}}

\* an update that pairs the rows of df and other by position
UpdateByPosition(df, other) ==
    [i \in 1..Len(df) |->
        IF i > Len(other) THEN df[i]
        ELSE [c \in DOMAIN df[i] |->
                 IF c # "index" /\ c \in DOMAIN other[i] /\ ~IsNA(other[i][c])
                 THEN other[i][c] ELSE df[i][c]]]

\* an assignment of other in place of the update
UpdateByAssignment(df, other) == other

\* df.update(other): in the columns both have, every non-NaN value of other
\* replaces the value of the row of df with the same label
Update(df, other) ==
    [i \in 1..Len(df) |->
        LET match == Aligned(other, df[i])
        IN  IF match = {} THEN df[i]
            ELSE LET o == CHOOSE o \in match : TRUE
                 IN  [c \in DOMAIN df[i] |->
                         IF c # "index" /\ c \in DOMAIN o /\ ~IsNA(o[c])
                         THEN o[c] ELSE df[i][c]]]

\* df.to_csv(..., index=False): the rows in order, without their labels
ToCsv(df) == [i \in 1..Len(df) |-> [c \in Columns(df[i]) |-> df[i][c]]]

(***************************************************************************)
(* The run.                                                                *)
(***************************************************************************)
Init ==
    /\ pc = "load"
    /\ defined = {}
    /\ data_season1 = <<>>
    /\ data_season2 = <<>>
    /\ data_season3 = <<>>
    /\ data_train = <<>>
    /\ nan_rows = <<>>
    /\ data_season3_clean = <<>>
    /\ features = <<>>
    /\ X_train = EmptyMatrix
    /\ X_test = EmptyMatrix
    /\ X_val = EmptyMatrix
    /\ y_train = <<>>
    /\ y_val = <<>>
    /\ param_grid = NoGrid
    /\ grid_search = NoSearch
    /\ best_model = NoModel
    /\ files = <<>>

\* a load that goes on with the tables it has when a read fails
LoadDataUnchecked(csv, failed) ==
    /\ pc = "load"
    /\ data_season1' = IF failed = 1 THEN data_season1 ELSE ReadCsv(csv[1])
    /\ data_season2' = IF failed \in {1, 2} THEN data_season2 ELSE ReadCsv(csv[2])
    /\ data_season3' = IF failed # 0 THEN data_season3 ELSE ReadCsv(csv[3])
    /\ data_train' = IF failed # 0 THEN data_train
                     ELSE DropNa(Concat(ReadCsv(csv[1]), ReadCsv(csv[2])))
    /\ defined' = CASE failed = 0 -> {"data_season1", "data_season2", "data_season3",
                                       "data_train"}
                    [] failed = 1 -> {}
                    [] failed = 2 -> {"data_season1"}
                    [] failed = 3 -> {"data_season1", "data_season2"}
    /\ pc' = "clean"
    /\ UNCHANGED <<nan_rows, data_season3_clean, features, matrices, trained, files>>

\* cell "Load the data": year1.csv, year2.csv and year3.csv hold csv[1], csv[2]
\* and csv[3]; the read of file number failed raises (0: every read succeeds)
LoadData(csv, failed) ==
    /\ pc = "load"
    /\ data_season1' = IF failed = 1 THEN data_season1 ELSE ReadCsv(csv[1])
    /\ data_season2' = IF failed \in {1, 2} THEN data_season2 ELSE ReadCsv(csv[2])
    /\ data_season3' = IF failed # 0 THEN data_season3 ELSE ReadCsv(csv[3])
    /\ data_train' = IF failed # 0 THEN data_train
                     ELSE DropNa(Concat(ReadCsv(csv[1]), ReadCsv(csv[2])))
    /\ defined' = CASE failed = 0 -> {"data_season1", "data_season2", "data_season3",
                                       "data_train"}
                    [] failed = 1 -> {}
                    [] failed = 2 -> {"data_season1"}
                    [] failed = 3 -> {"data_season1", "data_season2"}
    /\ pc' = IF failed = 0 THEN "clean" ELSE "aborted"
    /\ UNCHANGED <<nan_rows, data_season3_clean, features, matrices, trained, files>>

\* cell "similar process for season 3"
CleanSeason3 ==
    /\ pc = "clean"
    /\ nan_rows' = [i \in 1..Len(data_season3) |->
                       [index |-> data_season3[i].index, value |-> HasNaN(data_season3[i])]]
    /\ LET defaulted == WithColumn(data_season3, "SwingProbability",
                                   [i \in 1..Len(data_season3) |->
                                       Cell(DefaultSwingProbability)])
       IN  /\ data_season3' = defaulted
           /\ data_season3_clean' = DropNa(defaulted)
    /\ defined' = defined \cup {"nan_rows", "data_season3_clean"}
    /\ pc' = "features"
    /\ UNCHANGED <<data_season1, data_season2, data_train, features, matrices, trained,
                   files>>

\* cell "Define swing events"
FeatureEngineering ==
    /\ pc = "features"
    /\ data_train' =
           WithColumn(
               WithColumn(data_train, "swing",
                          [i \in 1..Len(data_train) |->
                              Cell(SwingLabel(data_train[i].description[1]))]),
               "relative_pitch_height",
               [i \in 1..Len(data_train) |-> RelativePitchHeight(data_train[i])])
    /\ data_season3_clean' =
           WithColumn(data_season3_clean, "relative_pitch_height",
                      [i \in 1..Len(data_season3_clean) |->
                          RelativePitchHeight(data_season3_clean[i])])
    /\ features' = FeatureList
    /\ defined' = defined \cup {"swing_events", "features"}
    /\ pc' = "encode"
    /\ UNCHANGED <<data_season1, data_season2, data_season3, nan_rows, matrices,
                   trained, files>>

\* cell "X_train = pd.get_dummies(...)": encode, align, split
EncodeAndSplit ==
    /\ pc = "encode"
    /\ LET encoded == GetDummies(data_train, features)
           y == Series(data_train, "swing")
           n == Len(encoded.rows)
       IN  /\ X_test' = Reindex(GetDummies(data_season3_clean, features),
                                encoded.columns, 0)
           /\ \/ /\ TestChoices(n) = {}
                 /\ X_train' = encoded
                 /\ y_train' = y
                 /\ UNCHANGED <<X_val, y_val>>
                 /\ defined' = defined \cup {"X_train", "X_test", "y_train"}
                 /\ pc' = "aborted"
              \/ \E S \in TestChoices(n) :
                 /\ X_train' = Matrix(encoded.columns, Pick(encoded.rows, (1..n) \ S))
                 /\ X_val' = Matrix(encoded.columns, Pick(encoded.rows, S))
                 /\ y_train' = Pick(y, (1..n) \ S)
                 /\ y_val' = Pick(y, S)
                 /\ defined' = defined \cup {"X_train", "X_test", "y_train", "X_val",
                                            "y_val"}
                 /\ pc' = "vif"
    /\ UNCHANGED <<tables, features, trained, files>>

\* cell "vif_data = calculate_vifs(X_train)": a printed diagnostic; the
\* regression behind it can fail on values that are not finite
CalculateVifs ==
    /\ pc = "vif"
    /\ \E ok \in IF HasInf(X_train) \/ HasNaNCell(X_train) THEN BOOLEAN ELSE {TRUE} :
           /\ pc' = IF ok THEN "train" ELSE "aborted"
           /\ defined' = IF ok THEN defined \cup {"vif_data"} ELSE defined
    /\ UNCHANGED <<tables, features, matrices, trained, files>>

\* cell "Model Training": param_grid is assigned twice, then the search is fitted
Train ==
    /\ pc = "train"
    /\ param_grid' = ParamGridSecond
    /\ \E ok \in FitOutcomes(X_train) :
           IF ok
           THEN \E scores \in [1..Len(ParameterGrid(param_grid')) -> ScoreLevels] :
                    LET candidates == ParameterGrid(param_grid')
                        best == BestIndex(scores)
                    IN  /\ grid_search' = [candidates |-> candidates,
                                           mean_test_score |-> scores,
                                           best_index |-> best]
                        /\ best_model' = [max_depth |-> candidates[best].max_depth,
                                          n_estimators |-> candidates[best].n_estimators,
                                          columns |-> X_train.columns]
                        /\ defined' = defined \cup {"model", "param_grid", "grid_search",
                                                   "best_model"}
                        /\ pc' = "evaluate"
           ELSE /\ UNCHANGED <<grid_search, best_model>>
                /\ defined' = defined \cup {"model", "param_grid", "grid_search"}
                /\ pc' = "aborted"
    /\ UNCHANGED <<tables, features, matrices, files>>

\* cells "make predictions on validation data" to "Feature Importance": printed
\* and plotted diagnostics; the last of them rebinds features
Evaluate ==
    /\ pc = "evaluate"
    /\ \E ok \in PredictOutcomes(X_val) :
           IF ok /\ BothClasses(y_val)
           THEN /\ features' = X_train.columns
                /\ defined' = defined \cup {"y_pred_proba", "y_pred", "roc_auc",
                                           "accuracy", "conf_matrix", "importances"}
                /\ pc' = "persist"
           ELSE /\ UNCHANGED features
                /\ defined' = IF ok THEN defined \cup {"y_pred_proba", "y_pred"}
                              ELSE defined
                /\ pc' = "aborted"
    /\ UNCHANGED <<tables, matrices, trained, files>>

\* cell "save best model": pickle the model, score season 3, merge, write
Persist ==
    /\ pc = "persist"
    /\ \E ok \in PredictOutcomes(X_test) :
           IF ok
           THEN \E proba \in [1..Len(X_test.rows) -> ProbLevels] :
                    LET scored == [i \in 1..Len(data_season3_clean) |->
                                      [data_season3_clean[i] EXCEPT
                                          !.SwingProbability = Cell(proba[i])]]
                        merged == Update(data_season3, scored)
                    IN  /\ data_season3_clean' = scored
                        /\ data_season3' = merged
                        /\ files' = [f \in {"best_model.pkl", "validation.csv"} |->
                                        IF f = "best_model.pkl" THEN <<best_model>>
                                        ELSE ToCsv(merged)]
                        /\ pc' = "done"
           ELSE /\ files' = [f \in {"best_model.pkl"} |-> <<best_model>>]
                /\ UNCHANGED <<data_season3, data_season3_clean>>
                /\ pc' = "aborted"
    /\ UNCHANGED <<defined, data_season1, data_season2, data_train, nan_rows, features,
                   matrices, trained>>

(***************************************************************************)
(* The season files the run can find, and the specifications.              *)
(***************************************************************************)
\* a record of a season file; every argument is a cell
FileRow(description, z, bot, top, stand, p_throws, pitch_type, speed) ==
    [description |-> description, plate_z |-> z, sz_bot |-> bot, sz_top |-> top,
     release_speed |-> speed, plate_x |-> Cell(0), stand |-> stand,
     p_throws |-> p_throws, pfx_x |-> Cell(0), pfx_z |-> Cell(0), balls |-> Cell(0),
     strikes |-> Cell(0), pitch_type |-> pitch_type]

\* the files of at most n records over a set of records
Tables(rows, n) == UNION {[1..k -> rows] : k \in 0..n}

SwingRow ==
    FileRow(Cell("foul"), Cell(3), Cell(2), Cell(4), Cell("R"), Cell("R"), Cell("FF"),
            Cell(90))

BallRow ==
    FileRow(Cell("ball"), Cell(1), Cell(2), Cell(4), Cell("L"), Cell("R"), Cell("SL"),
            Cell(85))

\* a pitch with no release speed recorded
NoSpeedRow ==
    FileRow(Cell("ball"), Cell(3), Cell(2), Cell(4), Cell("R"), Cell("R"), Cell("FF"),
            NaN)

\* a pitch with no pitch type recorded
NoTypeRow ==
    FileRow(Cell("foul"), Cell(3), Cell(2), Cell(4), Cell("L"), Cell("R"), NaN,
            Cell(90))

\* swings and balls in turn: enough complete rows of both classes to train on
BulkTable(k) == [i \in 1..k |-> IF i % 2 = 1 THEN SwingRow ELSE BallRow]

BulkTables == {BulkTable(k) : k \in 0..MaxBulkRows}

\* a file of no record, or of one
Short == {<<>>, <<BallRow>>}

\* the whole run: complete and incomplete rows in season 1 and in season 3
Inputs ==
    Tables({SwingRow, NoSpeedRow}, MaxRows) \X BulkTables
        \X Tables({SwingRow, NoSpeedRow, NoTypeRow}, MaxRows)

\* outcome descriptions: the nine swing events and three others
Descriptions ==
    {"foul", "hit_into_play", "swinging_strike", "foul_tip", "foul_bunt",
     "swinging_strike_blocked", "missed_bunt", "bunt_foul_tip", "foul_pitchout",
     "ball", "called_strike", "blocked_ball"}

LabelRows ==
    {FileRow(Cell(d), Cell(3), Cell(2), Cell(4), Cell("R"), Cell("R"), Cell("FF"),
             Cell(90)) : d \in Descriptions}

InputsLabel == Tables(LabelRows, MaxRows) \X Short \X Short

\* a pitch at height z for a strike zone from bot to top
Pitch(z, bot, top) ==
    FileRow(Cell("ball"), z, Cell(bot), Cell(top), Cell("R"), Cell("R"), Cell("FF"),
            Cell(90))

\* pitches under, in and over a zone; a zone of no height; a zone upside down;
\* a pitch of unknown height
HeightRows ==
    {Pitch(Cell(z), 2, 4) : z \in 1..5} \cup {Pitch(Cell(z), 2, 2) : z \in 1..3}
        \cup {Pitch(Cell(3), 4, 2), Pitch(NaN, 2, 4)}

\* the heights vary in a training season or in the scoring season
InputsHeight ==
    (Tables(HeightRows, MaxRows) \X Short \X Tables({BallRow}, MaxRows))
        \cup (Tables({BallRow}, MaxRows) \X Short \X Tables(HeightRows, MaxRows))

\* a pitch of a batter side, a pitcher side and a pitch type
Levels(stand, p_throws, pitch_type) ==
    FileRow(Cell("ball"), Cell(3), Cell(2), Cell(4), Cell(stand), Cell(p_throws),
            Cell(pitch_type), Cell(90))

EncodeRows ==
    {Levels("R", "R", "FF"), Levels("L", "L", "CH"), Levels("R", "L", "SL"),
     Levels("L", "R", "SL")}

InputsEncode == Tables(EncodeRows, MaxRows) \X Short \X Tables(EncodeRows, MaxRows)

Load(inputs) ==
    /\ pc = "load"
    /\ \E csv \in inputs : \E failed \in 0..3 : LoadData(csv, failed)

Next ==
    \/ Load(Inputs)
    \/ CleanSeason3
    \/ FeatureEngineering
    \/ EncodeAndSplit
    \/ CalculateVifs
    \/ Train
    \/ Evaluate
    \/ Persist

Spec == Init /\ [][Next]_vars

\* the run up to the end of feature engineering, over every outcome description
NextLabel ==
    \/ Load(InputsLabel)
    \/ CleanSeason3
    \/ FeatureEngineering

SpecLabel == Init /\ [][NextLabel]_vars

\* the run up to the split, over pitch heights and strike zones
NextHeight ==
    \/ Load(InputsHeight)
    \/ CleanSeason3
    \/ FeatureEngineering
    \/ EncodeAndSplit

SpecHeight == Init /\ [][NextHeight]_vars

\* the run up to the split, over the levels of the categorical features
NextEncode ==
    \/ Load(InputsEncode)
    \/ CleanSeason3
    \/ FeatureEngineering
    \/ EncodeAndSplit

SpecEncode == Init /\ [][NextEncode]_vars

(***************************************************************************)
(* Claims about the whole run (Spec).                                      *)
(***************************************************************************)
\* C1: validation.csv has one row per row of year3.csv, in the same positions;
\* a row with a missing value carries SwingProbability 0.5, and a row without
\* one carries the probability predicted for the row of the cleaned copy and of
\* X_test that has its label.
C1_ValidationRows ==
    "validation.csv" \in DOMAIN files =>
        LET out == files["validation.csv"]
        IN  /\ Len(out) = Len(nan_rows)
            /\ \A i \in 1..Len(out) :
                   /\ nan_rows[i].index = i - 1
                   /\ \A c \in Range(RawColumns) : out[i][c] = data_season3[i][c]
                   /\ nan_rows[i].value <=> \E c \in Range(RawColumns) : IsNA(out[i][c])
                   /\ nan_rows[i].value =>
                          out[i].SwingProbability = Cell(DefaultSwingProbability)
                   /\ ~nan_rows[i].value =>
                          \E k \in 1..Len(data_season3_clean) :
                              /\ data_season3_clean[k].index = i - 1
                              /\ X_test.rows[k].index = i - 1
                              /\ out[i].SwingProbability =
                                     data_season3_clean[k].SwingProbability

\* a written validation.csv where a scored row follows an incomplete one, so
\* that its position in the cleaned copy is not its position in the table
C1_Witness ==
    /\ "validation.csv" \in DOMAIN files
    /\ Len(files["validation.csv"]) = 2
    /\ nan_rows[1].value
    /\ ~nan_rows[2].value
    /\ files["validation.csv"][2].SwingProbability = Cell(9)
    /\ files["validation.csv"][1].SwingProbability = Cell(DefaultSwingProbability)

\* C7: when the read of a season file fails, the run is aborted there: no later
\* cell has run and neither best_model.pkl nor validation.csv is written.
C7_ReadFailureAborts ==
    (pc # "load" /\ "data_train" \notin defined) =>
        /\ pc = "aborted"
        /\ files = <<>>
        /\ defined \subseteq {"data_season1", "data_season2"}
        /\ nan_rows = <<>> /\ data_season3_clean = <<>> /\ data_train = <<>>
        /\ features = <<>>
        /\ X_train = EmptyMatrix /\ X_test = EmptyMatrix /\ X_val = EmptyMatrix
        /\ param_grid = NoGrid /\ grid_search = NoSearch /\ best_model = NoModel

\* the read of year3.csv has failed after the other two succeeded
C7_Witness ==
    /\ pc = "aborted"
    /\ defined = {"data_season1", "data_season2"}
    /\ Len(data_season1) > 0
    /\ Len(data_season2) > 0

\* C9, as claimed: once X_train and X_test are encoded, no later step changes
\* data_train, data_season3 or data_season3_clean.
C9_NeverMutatedAfterEncoding ==
    [][("X_test" \in defined) =>
           UNCHANGED <<data_train, data_season3, data_season3_clean>>]_vars

\* a table keeps its rows, labels and columns, and every value except those
\* of SwingProbability
SameButSwingProbability(old, new) ==
    /\ Len(new) = Len(old)
    /\ \A i \in 1..Len(old) :
           /\ DOMAIN new[i] = DOMAIN old[i]
           /\ \A c \in DOMAIN old[i] \ {"SwingProbability"} : new[i][c] = old[i][c]

\* C9, amended: once X_train and X_test are encoded, no later step changes
\* data_train, and the only change to data_season3 and data_season3_clean is
\* to their SwingProbability column, which the last cell overwrites in place.
C9_OnlySwingProbabilityMutated ==
    [][("X_test" \in defined) =>
           /\ data_train' = data_train
           /\ SameButSwingProbability(data_season3, data_season3')
           /\ SameButSwingProbability(data_season3_clean, data_season3_clean')]_vars

\* the last cell has overwritten a probability in both tables
C9_Witness ==
    /\ pc = "done"
    /\ \E k \in 1..Len(data_season3_clean) :
           /\ data_season3_clean[k].SwingProbability # Cell(DefaultSwingProbability)
           /\ \E i \in 1..Len(data_season3) :
                  /\ data_season3[i].index = data_season3_clean[k].index
                  /\ data_season3[i].SwingProbability =
                         data_season3_clean[k].SwingProbability
    /\ \E i \in 1..Len(data_season3) : HasNaN(data_season3[i])

\* C4: every combination of n_estimators in {50, 100, 200, 300} and max_depth
\* in {10, 15, 20, 25, 30} is a candidate of the search that gives best_model,
\* and best_model is the candidate with the highest mean score.
C4_FullGridSearched ==
    "best_model" \in defined =>
        /\ Range(grid_search.candidates) =
               {[max_depth |-> d, n_estimators |-> n] :
                    d \in {10, 15, 20, 25, 30}, n \in {50, 100, 200, 300}}
        /\ \A k \in 1..Len(grid_search.candidates) :
               grid_search.mean_test_score[k] <=
                   grid_search.mean_test_score[grid_search.best_index]
        /\ best_model.max_depth = grid_search.candidates[grid_search.best_index].max_depth
        /\ best_model.n_estimators =
               grid_search.candidates[grid_search.best_index].n_estimators

(***************************************************************************)
(* Claims about the label (SpecLabel).                                     *)
(***************************************************************************)
\* C3: for every training row, swing is 1 if and only if its description is
\* one of the nine swing-event tokens, and 0 otherwise ("ball" gives 0).
C3_SwingLabel ==
    "features" \in defined =>
        \A i \in 1..Len(data_train) :
            /\ data_train[i].swing \in {Cell(0), Cell(1)}
            /\ data_train[i].swing = Cell(1) <=>
                   data_train[i].description \in
                       {Cell("foul"), Cell("hit_into_play"), Cell("swinging_strike"),
                        Cell("foul_tip"), Cell("foul_bunt"),
                        Cell("swinging_strike_blocked"), Cell("missed_bunt"),
                        Cell("bunt_foul_tip"), Cell("foul_pitchout")}
            /\ data_train[i].description = Cell("ball") => data_train[i].swing = Cell(0)

\* a labelled training set with the last token of the list and a ball
C3_Witness ==
    /\ "features" \in defined
    /\ \E i \in 1..Len(data_train) :
           data_train[i].description = Cell("foul_pitchout") /\ data_train[i].swing = Cell(1)
    /\ \E i \in 1..Len(data_train) :
           data_train[i].description = Cell("ball") /\ data_train[i].swing = Cell(0)

(***************************************************************************)
(* Claims about relative_pitch_height (SpecHeight).                        *)
(***************************************************************************)
\* the claim of C5 for one row whose zone has its top over its bottom
HeightInZoneRelation(row) ==
    LET h == row.relative_pitch_height
        z == row.plate_z[1]
        bot == row.sz_bot[1]
        top == row.sz_top[1]
    IN  /\ Len(h) = 2
        /\ h[2] > 0
        /\ h[1] * (top - bot) = (z - bot) * h[2]
        /\ (0 <= h[1] /\ h[1] <= h[2]) <=> (bot <= z /\ z <= top)
        /\ h[1] < 0 <=> z < bot
        /\ h[1] > h[2] <=> z > top

Encoded(X, row) ==
    \E k \in 1..Len(X.rows) :
        /\ X.rows[k].index = row.index
        /\ X.rows[k].v["relative_pitch_height"] = row.relative_pitch_height

\* the claim of C8 for one complete row whose zone has no height
DegenerateHeight(row) ==
    IF row.plate_z = row.sz_bot
    THEN row.relative_pitch_height = NaN
    ELSE row.relative_pitch_height \in {<<1, 0>>, <<-1, 0>>}

\* C8: a complete row with sz_top = sz_bot does not stop the run in feature
\* engineering: it gets an infinity (plate_z # sz_bot) or NaN (plate_z = sz_bot)
\* as relative_pitch_height, and it is still a row of X_train or X_val (training
\* seasons) or of X_test (scoring season) after the encoding.
C8_DegenerateZoneKept ==
    /\ pc = "aborted" => ("data_train" \notin defined \/ "X_test" \in defined)
    /\ "features" \in defined =>
           /\ \A i \in 1..Len(data_train) :
                  data_train[i].sz_top = data_train[i].sz_bot =>
                      /\ DegenerateHeight(data_train[i])
                      /\ "X_test" \in defined =>
                             \/ Encoded(X_train, data_train[i])
                             \/ Encoded(X_val, data_train[i])
           /\ \A i \in 1..Len(data_season3_clean) :
                  data_season3_clean[i].sz_top = data_season3_clean[i].sz_bot =>
                      /\ DegenerateHeight(data_season3_clean[i])
                      /\ "X_test" \in defined => Encoded(X_test, data_season3_clean[i])

\* an encoded scoring set with a row of height NaN and a row of height +inf
C8_Witness ==
    /\ "X_test" \in defined
    /\ \E k \in 1..Len(X_test.rows) : X_test.rows[k].v["relative_pitch_height"] = NaN
    /\ \E k \in 1..Len(X_test.rows) :
           X_test.rows[k].v["relative_pitch_height"] = <<1, 0>>

(***************************************************************************)
(* Claims about the encoding (SpecEncode).                                 *)
(***************************************************************************)
CategoricalFeatures == {"stand", "p_throws", "pitch_type"}

\* the columns of the scoring set's own encoding, before the reindex
OwnColumns ==
    LET numeric == SelectSeq(features, LAMBDA f : f \notin ObjectColumns)
        dummies == DummyColumns(data_season3_clean, features)
    IN  Range(numeric) \cup {dummies[k].name : k \in 1..Len(dummies)}

\* C2: X_test has the columns of X_train, in X_train's order; a training column
\* that the scoring set's own encoding lacks is 0 in every row, and a column
\* of that encoding that training lacks is gone.
C2_ColumnsAligned ==
    "X_test" \in defined =>
        LET own == OwnColumns
            training == Range(X_train.columns)
        IN  /\ X_test.columns = X_train.columns
            /\ Len(X_test.columns) = Len(X_train.columns)
            /\ Len(X_test.rows) = Len(data_season3_clean)
            /\ \A k \in 1..Len(X_test.rows) :
                   /\ DOMAIN X_test.rows[k].v = training
                   /\ \A c \in training \ own : X_test.rows[k].v[c] = Cell(0)
            /\ \A c \in own \ training : c \notin Range(X_test.columns)

\* a scoring set whose own encoding lacks a training column and has a column
\* that training lacks
C2_Witness ==
    /\ "X_test" \in defined
    /\ Len(X_test.rows) > 0
    /\ "pitch_type_SL" \in OwnColumns \ Range(X_train.columns)
    /\ "stand_R" \in Range(X_train.columns) \ OwnColumns
    /\ \A k \in 1..Len(X_test.rows) : X_test.rows[k].v["stand_R"] = Cell(0)

\* whether a level of a feature occurs in the training data
SeenInTraining(f, level) == \E i \in 1..Len(data_train) : data_train[i][f] = level

\* C6: a scoring row whose level of a categorical feature never occurs in the
\* training data has 0 in every indicator column of that feature in X_test, and
\* its level adds no column: the columns of X_test are those of X_train.
C6_UnseenLevelIsZeroVector ==
    "X_test" \in defined =>
        /\ Range(X_test.columns) = Range(X_train.columns)
        /\ \A k \in 1..Len(data_season3_clean) : \A f \in CategoricalFeatures :
               ~SeenInTraining(f, data_season3_clean[k][f]) =>
                   /\ DummyName(f, data_season3_clean[k][f][1]) \notin Range(X_test.columns)
                   /\ \A l \in Range(LevelOrder) :
                          DummyName(f, l) \in Range(X_test.columns) =>
                              X_test.rows[k].v[DummyName(f, l)] = Cell(0)

\* training knows the pitch types CH and FF, and a scoring row is an SL
C6_Witness ==
    /\ "X_test" \in defined
    /\ "pitch_type_FF" \in Range(X_train.columns)
    /\ \E k \in 1..Len(data_season3_clean) :
           /\ data_season3_clean[k].pitch_type = Cell("SL")
           /\ ~SeenInTraining("pitch_type", Cell("SL"))
           /\ X_test.rows[k].v["pitch_type_FF"] = Cell(0)

\* C10: for every categorical feature and every level L with an indicator
\* column in X_train, a complete scoring row has 1 in that column of X_test if
\* and only if its level is L.
C10_ConsistentEncoding ==
    "X_test" \in defined =>
        \A f \in CategoricalFeatures : \A l \in Range(LevelOrder) :
            DummyName(f, l) \in Range(X_train.columns) =>
                \A k \in 1..Len(data_season3_clean) :
                    X_test.rows[k].v[DummyName(f, l)] = Cell(1) <=>
                        data_season3_clean[k][f] = Cell(l)

====
